---------------------------- MODULE Spec2Model ----------------------------
(***************************************************************************)
(* AI Trip Planner: the Streamlit page (src/app.py) and the MCP tool       *)
(* server (src/mcp_server.py).                                             *)
(*                                                                         *)
(* Text is a sequence of characters.  A character is a one-letter string;  *)
(* a longer string inside a text is a token standing for a fixed literal   *)
(* of the source that holds no white space at its ends, no upper-case      *)
(* letter that matters and none of the keywords "day", "rain", "storm",    *)
(* "clear", "sun" (an emoji, a message of the source, a number printed by  *)
(* an f-string).                                                           *)
(***************************************************************************)
EXTENDS Integers, Sequences, FiniteSets, TLC

VARIABLES
    \* st.session_state
    itinerary,              \* None or Some(text)
    booking_done,
    \* the page run in progress
    pc,                     \* position of the script, "idle" between runs
    clicked,                \* st.button("Generate Itinerary") of this run
    submit_booking,         \* st.form_submit_button of this run
    name,                   \* "Traveller Name" of the submitted form
    destination, days, language,   \* sidebar widgets / tool arguments
    response_text,          \* local `itinerary` (response.text), line 124
    weather_forecast,       \* local, line 127
    itinerary_with_weather, \* local, lines 130-152
    form_shown,             \* the booking form is on the rendered page
    error,                  \* the uncaught exception that stopped the run
    \* history of the current Generate cycle
    calls,                  \* the external calls issued, in order
    upstream,               \* what the weather service answered
    merged,                 \* itinerary_with_weather before the translation step
    translation,            \* "none", "skipped", "ok", "failed"
    \* the MCP tool server and the file system
    tool_result,            \* what weather_forecast returned or raised
    pdf_file,               \* content of ./itinerary.pdf
    exporter                \* the concurrent export-then-read callers

vars == <<itinerary, booking_done, pc, clicked, submit_booking, name,
          destination, days, language, response_text, weather_forecast,
          itinerary_with_weather, form_shown, error, calls, upstream, merged,
          translation, tool_result, pdf_file, exporter>>

session_vars == <<itinerary, booking_done>>
run_vars == <<pc, clicked, submit_booking, name, destination, days, language,
              response_text, weather_forecast, itinerary_with_weather,
              form_shown, error, calls, upstream, merged, translation>>
tool_vars == <<tool_result, pdf_file, exporter>>

-----------------------------------------------------------------------------
\* Bounds of the model.

\* day counts 1..MaxDays of the 1..30 the number_input allows
MaxDays == 2
\* lines in a generated itinerary
MaxLines == 2

-----------------------------------------------------------------------------
\* Python's str operations.

NL == "\n"

IsSpace(c) == c \in {" ", NL, "\t"}

UpperCase == <<"A","B","C","D","E","F","G","H","I","J","K","L","M",
               "N","O","P","Q","R","S","T","U","V","W","X","Y","Z">>
LowerCase == <<"a","b","c","d","e","f","g","h","i","j","k","l","m",
               "n","o","p","q","r","s","t","u","v","w","x","y","z">>

LowerChar(c) ==
    IF \E i \in 1..Len(UpperCase) : UpperCase[i] = c
    THEN LowerCase[CHOOSE i \in 1..Len(UpperCase) : UpperCase[i] = c]
    ELSE c

UpperChar(c) ==
    IF \E i \in 1..Len(LowerCase) : LowerCase[i] = c
    THEN UpperCase[CHOOSE i \in 1..Len(LowerCase) : LowerCase[i] = c]
    ELSE c

\* str.lower()
Lower(s) == [i \in 1..Len(s) |-> LowerChar(s[i])]

\* str.capitalize(): first character upper-cased, the rest lower-cased
Capitalize(s) == [i \in 1..Len(s) |-> IF i = 1 THEN UpperChar(s[i]) ELSE LowerChar(s[i])]

\* str.strip(): leading and trailing white space removed
Strip(s) ==
    LET keep == {i \in 1..Len(s) : ~IsSpace(s[i])}
    IN  IF keep = {} THEN <<>>
        ELSE LET a == CHOOSE i \in keep : \A j \in keep : i <= j
                 b == CHOOSE i \in keep : \A j \in keep : i >= j
             IN  SubSeq(s, a, b)

\* str.startswith(p)
StartsWith(s, p) == Len(s) >= Len(p) /\ SubSeq(s, 1, Len(p)) = p

\* p in s
Contains(s, p) ==
    \E i \in 0..(Len(s) - Len(p)) : SubSeq(s, i + 1, i + Len(p)) = p

\* str.split("\n"): always at least one piece
RECURSIVE Split(_)
Split(s) ==
    IF \A i \in 1..Len(s) : s[i] # NL THEN <<s>>
    ELSE LET i == CHOOSE k \in 1..Len(s) : s[k] = NL /\ \A j \in 1..(k - 1) : s[j] # NL
         IN  <<SubSeq(s, 1, i - 1)>> \o Split(SubSeq(s, i + 1, Len(s)))

\* "\n".join(lines)
RECURSIVE Join(_)
Join(lines) ==
    IF lines = <<>> THEN <<>>
    ELSE IF Len(lines) = 1 THEN lines[1]
    ELSE lines[1] \o <<NL>> \o Join(Tail(lines))

None == <<>>
Some(t) == <<t>>
\* truthiness of st.session_state.itinerary (line 163): neither None nor ""
Truthy(it) == it # None /\ it[1] # <<>>

-----------------------------------------------------------------------------
\* get_weather_forecast (src/app.py lines 22-43).

Stride == 8

Destinations == { <<"G","o","a">>, <<"B","a","h","r","a","i","n">> }
DayCounts == 1..MaxDays

\* descriptions the weather service uses (lower case, as OpenWeather sends them)
Descriptions == << <<"r","a","i","n">>, <<"c","l","e","a","r">>, <<"f","o","g">> >>

\* The forecast entry at 0-based position p of an upstream list: its temperature
\* tells the position, its description rotates; entry `bad` (1-based, 0 for none)
\* lacks the "main" field.
UpstreamEntry(p, shift, bad) ==
    [ok   |-> (p + 1 # bad),
     desc |-> Descriptions[((p + shift) % Len(Descriptions)) + 1],
     temp |-> ToString(20 + p)]

UpstreamList(len, shift, bad) ==
    [i \in 1..len |-> UpstreamEntry(i - 1, shift, bad)]

\* list lengths at and around the positions the loop reads
ListLens == {0} \cup {Stride * k + d : k \in 0..(MaxDays - 1), d \in {0, 1}}
                \cup {Stride * (MaxDays - 1) + 2}

WeatherResponses ==
    { [kind |-> "exception", status |-> 0, has_list |-> FALSE, list |-> <<>>] }
    \cup { [kind |-> "http", status |-> 404, has_list |-> FALSE, list |-> <<>>],
           [kind |-> "http", status |-> 200, has_list |-> FALSE, list |-> <<>>],
           [kind |-> "http", status |-> 500, has_list |-> TRUE,
            list |-> UpstreamList(1, 0, 0)] }
    \cup { [kind |-> "http", status |-> 200, has_list |-> TRUE,
            list |-> UpstreamList(len, shift, bad)] :
              len \in ListLens, shift \in 0..(Len(Descriptions) - 1),
              bad \in {0, 1, Stride + 1} }

\* no request is made, hence no response exists, without OPENWEATHER_API_KEY
NoResponse == [kind |-> "none", status |-> 0, has_list |-> FALSE, list |-> <<>>]
NoUpstream == [api_key |-> FALSE, response |-> NoResponse]

WeatherEnvs ==
    {NoUpstream} \cup {[api_key |-> TRUE, response |-> r] : r \in WeatherResponses}

NoKeyWarning == <<"(!)", " ", "No weather API key configured.">>
NotAvailableWarning(dest) == <<"(!)", " ", "Weather not available for", " ">> \o dest
ErrorWarning(msg) == <<"(!)", " ", "Error fetching weather:", " ", msg>>

\* f"Day {i+1}: {desc}, {temp}(deg)C", i 0-based
ForecastLine(i, entry) ==
    <<"D","a","y"," ", ToString(i + 1), ":", " ">>
        \o Capitalize(entry.desc) \o <<",", " ", entry.temp, "(deg)C">>

\* the loop of lines 35-41, from iteration i on: the list built, or the exception
\* an iteration raised
RECURSIVE SampleForecasts_partial(_, _, _, _)
SampleForecasts_partial(list, n, i, acc) ==
    IF i >= n THEN [raised |-> FALSE, value |-> acc, msg |-> ""]
    ELSE IF i * Stride + 1 > Len(list)
         THEN [raised |-> FALSE, value |-> acc, msg |-> ""]
    ELSE IF ~list[i * Stride + 1].ok
         THEN [raised |-> TRUE, value |-> <<>>, msg |-> "'main'"]
    ELSE SampleForecasts_partial(list, n, i + 1,
                         Append(acc, ForecastLine(i, list[i * Stride + 1])))

RECURSIVE SampleForecasts(_, _, _, _)
SampleForecasts(list, n, i, acc) ==
    IF i >= n THEN [raised |-> FALSE, value |-> acc, msg |-> ""]
    ELSE IF i * Stride + 1 > Len(list)
         THEN [raised |-> TRUE, value |-> <<>>, msg |-> "list index out of range"]
    ELSE IF ~list[i * Stride + 1].ok
         THEN [raised |-> TRUE, value |-> <<>>, msg |-> "'main'"]
    ELSE SampleForecasts(list, n, i + 1,
                         Append(acc, ForecastLine(i, list[i * Stride + 1])))

\* the body of the try block, lines 29-41
TryForecast(dest, n, response) ==
    IF response.kind = "exception"
    THEN [raised |-> TRUE, value |-> <<>>, msg |-> "connection error"]
    ELSE IF response.status # 200 \/ ~response.has_list
    THEN [raised |-> FALSE, value |-> <<NotAvailableWarning(dest)>>, msg |-> ""]
    ELSE SampleForecasts(response.list, n, 0, <<>>)

get_weather_forecast_nocatch(dest, n, env) ==
    IF ~env.api_key
    THEN [raised |-> FALSE, value |-> <<NoKeyWarning>>, msg |-> ""]
    ELSE TryForecast(dest, n, env.response)

get_weather_forecast(dest, n, env) ==
    IF ~env.api_key
    THEN [raised |-> FALSE, value |-> <<NoKeyWarning>>, msg |-> ""]
    ELSE LET r == TryForecast(dest, n, env.response)
         IN  IF r.raised
             THEN [raised |-> FALSE, value |-> <<ErrorWarning(r.msg)>>, msg |-> ""]
             ELSE r

-----------------------------------------------------------------------------
\* smart_suggestion (lines 48-54).

smart_suggestion(weather_desc) ==
    IF Contains(Lower(weather_desc), <<"r","a","i","n">>)
       \/ Contains(Lower(weather_desc), <<"s","t","o","r","m">>)
    THEN <<"(rain)", " ", "Suggested: Indoor activities (museums, cafes, shopping).">>
    ELSE IF Contains(Lower(weather_desc), <<"c","l","e","a","r">>)
            \/ Contains(Lower(weather_desc), <<"s","u","n">>)
    THEN <<"(sun)", " ", "Suggested: Outdoor sightseeing, beaches, local tours.">>
    ELSE <<"(sparkle)", " ", "Suggested: Flexible activities depending on mood!">>

-----------------------------------------------------------------------------
\* The merge loop of Generate Itinerary (lines 129-140).

\* line.strip().lower().startswith("day")
IsDayLine(line) == StartsWith(Lower(Strip(line)), <<"d","a","y">>)

\* f"   (cloud) Weather: {weather_line}" and f"   (bulb) {smart_suggestion(...)}"
WeatherLine(w) == <<" ", " ", " ", "(cloud)", " ", "Weather:", " ">> \o w
SuggestionLine(w) == <<" ", " ", " ", "(bulb)", " ">> \o smart_suggestion(w)

\* the loop from line k on, weather_index (0-based) and the text built so far
RECURSIVE MergeLines_unbounded(_, _, _, _, _)
MergeLines_unbounded(lines, forecast, k, weather_index, acc) ==
    IF k > Len(lines) THEN acc
    ELSE IF IsDayLine(lines[k]) /\ forecast # <<>>
         THEN LET w == forecast[IF weather_index < Len(forecast)
                                THEN weather_index + 1 ELSE Len(forecast)]
              IN  MergeLines_unbounded(lines, forecast, k + 1, weather_index + 1,
                     acc \o lines[k] \o <<NL>>
                         \o WeatherLine(w) \o <<NL>>
                         \o SuggestionLine(w) \o <<NL>>)
         ELSE MergeLines_unbounded(lines, forecast, k + 1, weather_index,
                     acc \o lines[k] \o <<NL>>)

RECURSIVE MergeLines(_, _, _, _, _)
MergeLines(lines, forecast, k, weather_index, acc) ==
    IF k > Len(lines) THEN acc
    ELSE IF IsDayLine(lines[k]) /\ weather_index < Len(forecast)
         THEN LET w == forecast[weather_index + 1]
              IN  MergeLines(lines, forecast, k + 1, weather_index + 1,
                     acc \o lines[k] \o <<NL>>
                         \o WeatherLine(w) \o <<NL>>
                         \o SuggestionLine(w) \o <<NL>>)
         ELSE MergeLines(lines, forecast, k + 1, weather_index,
                     acc \o lines[k] \o <<NL>>)

MergeLoop(text, forecast) == MergeLines(Split(text), forecast, 1, 0, <<>>)

-----------------------------------------------------------------------------
\* get_places_recommendations (lines 59-79).

PlacesLimit == 5

\* the i-th place of the upstream ranking; the first carries no address
UpstreamPlace(i) ==
    [has_name |-> TRUE, name |-> "P" \o ToString(i),
     has_addr |-> (i # 1), addr |-> "A" \o ToString(i)]

PlacesResponses ==
    { [kind |-> "exception", status |-> 0, has_results |-> FALSE, results |-> <<>>],
      [kind |-> "http", status |-> 403, has_results |-> FALSE, results |-> <<>>] }
    \cup { [kind |-> "http", status |-> 200, has_results |-> TRUE,
            results |-> [i \in 1..n |-> UpstreamPlace(i)]] :
              n \in {0, 1, PlacesLimit + 1} }

PlacesEnvs ==
    { [maps_key |-> FALSE,
       response |-> [kind |-> "none", status |-> 0, has_results |-> FALSE,
                     results |-> <<>>]] }
    \cup { [maps_key |-> TRUE, response |-> r] : r \in PlacesResponses }

\* f"(building) {name} - {addr}"
PlaceLine(place) ==
    <<"(building)", " ", IF place.has_name THEN place.name ELSE "Unknown Place",
      " ", "-", " ">> \o (IF place.has_addr THEN <<place.addr>> ELSE <<>>)

get_places_recommendations(dest, env) ==
    IF ~env.maps_key THEN << <<"(!)", " ", "No Google Maps API key configured.">> >>
    ELSE IF env.response.kind = "exception"
    THEN << <<"(!)", " ", "Error fetching places:", " ", "connection error">> >>
    ELSE IF env.response.status # 200 \/ ~env.response.has_results
    THEN << <<"(!)", " ", "Places not available">> >>
    ELSE LET top == SubSeq(env.response.results, 1,
                           IF Len(env.response.results) < PlacesLimit
                           THEN Len(env.response.results) ELSE PlacesLimit)
         IN  [i \in 1..Len(top) |-> PlaceLine(top[i])]

\* "\n\n(city) Recommended Places to Visit:\n" + "\n".join(places), line 144
PlacesBlock(places) ==
    <<NL, NL, "(city)", " ", "Recommended Places to Visit:", NL>> \o Join(places)

-----------------------------------------------------------------------------
\* Translation (lines 146-152) and export_pdf (lines 84-94).

Languages == {"English", "French"}

\* what GoogleTranslator.translate may answer for a text: some other text, which
\* a service is free to leave empty
Translations(text, lang) == { <<"(" \o lang \o ")">> \o text, <<>> }

TranslationFailed == <<NL, "(!)", " ", "Translation failed.">>

\* FPDF's rendering of a text, as the bytes pdf.output writes
Render(text) == <<"%PDF">> \o text
NoFile == <<>>

-----------------------------------------------------------------------------
\* Inputs of the model.

\* lines a generated itinerary is made of: day headings as the model writes
\* them, indented and lower-cased ones, headings in markdown, plain and empty lines
ItineraryLines ==
    { <<"D","a","y"," ","1">>, <<" ","d","a","y">>, <<"*","D","a","y">>, <<"x">>, <<>> }

ItineraryTexts ==
    { Join(ls) : ls \in UNION { [1..n -> ItineraryLines] : n \in 0..MaxLines } }

\* the inputs of the session model: the pipeline runs as a whole in it, on fewer texts
SessionDestinations == { <<"G","o","a">> }

SessionTexts ==
    { <<"D","a","y"," ","1",NL,"x">>, <<NL," ","d","a","y">> }

SessionWeatherEnvs ==
    { NoUpstream,
      [api_key |-> TRUE, response |-> [kind |-> "http", status |-> 200,
                                       has_list |-> TRUE,
                                       list |-> UpstreamList(Stride + 1, 0, 0)]] }

SessionPlacesEnvs ==
    { e \in PlacesEnvs : ~e.maps_key \/ Len(e.response.results) = 1 }

\* traveller names typed into the booking form
Names == { <<>>, <<" ">>, <<"A">>, <<" ","A","\t">> }

DefaultDays == 3

-----------------------------------------------------------------------------
\* The page: one script run per user interaction (Streamlit's execution model).

SessionInit ==
    /\ itinerary = None                          \* lines 103-104
    /\ booking_done = FALSE                      \* lines 105-106

PageInit ==
    /\ SessionInit
    /\ pc = "idle"
    /\ clicked = FALSE
    /\ submit_booking = FALSE
    /\ name = <<>>
    /\ destination = <<"G","o","a">>             \* line 112
    /\ days = DefaultDays                        \* line 113
    /\ language = "English"                      \* line 115
    /\ response_text = <<>>
    /\ weather_forecast = <<>>
    /\ itinerary_with_weather = <<>>
    /\ form_shown = FALSE
    /\ error = "none"
    /\ calls = <<>>
    /\ upstream = NoUpstream
    /\ merged = <<>>
    /\ translation = "none"

ToolsIdle ==
    /\ tool_result = [raised |-> FALSE, value |-> <<>>, msg |-> ""]
    /\ pdf_file = NoFile
    /\ exporter = <<>>

Init == PageInit /\ ToolsIdle

\* every run starts the script with fresh locals
FreshRun ==
    /\ response_text' = <<>>
    /\ weather_forecast' = <<>>
    /\ itinerary_with_weather' = <<>>
    /\ form_shown' = FALSE
    /\ error' = "none"
    /\ calls' = <<>>
    /\ upstream' = NoUpstream
    /\ merged' = <<>>
    /\ translation' = "none"

\* the user sets the sidebar and clicks "Generate Itinerary" (lines 112-120)
ClickGenerate(dests) ==
    /\ pc = "idle"
    /\ \E d \in dests, n \in DayCounts, l \in Languages :
          /\ destination' = d
          /\ days' = n
          /\ language' = l
    /\ clicked' = TRUE
    /\ submit_booking' = FALSE
    /\ name' = <<>>
    /\ FreshRun
    /\ pc' = "generate"
    /\ UNCHANGED <<session_vars, tool_vars>>

\* the user submits the booking form that the page shows (line 199)
SubmitBooking ==
    /\ pc = "idle"
    /\ form_shown
    /\ \E n \in Names : name' = n
    /\ submit_booking' = TRUE
    /\ clicked' = FALSE
    /\ FreshRun
    /\ pc' = "show"
    /\ UNCHANGED <<session_vars, tool_vars, destination, days, language>>

\* any other interaction reruns the script with no button pressed
Rerun ==
    /\ pc = "idle"
    /\ clicked' = FALSE
    /\ submit_booking' = FALSE
    /\ name' = <<>>
    /\ FreshRun
    /\ pc' = "show"
    /\ UNCHANGED <<session_vars, tool_vars, destination, days, language>>

\* the uncaught exception of a call stops the run where it is: Streamlit shows it
\* and runs nothing below
Abort(what) ==
    /\ error' = what
    /\ pc' = "idle"

\* lines 122-124: generate_content and response.text, either of which may raise
GenerateContent_swallow(texts) ==
    /\ pc = "generate"
    /\ calls' = Append(calls, "generate")
    /\ \/ /\ error' = "generate"
          /\ response_text' = <<>>
          /\ pc' = "weather"
       \/ /\ \E t \in texts : response_text' = t
          /\ pc' = "weather"
          /\ UNCHANGED error
    /\ UNCHANGED <<session_vars, tool_vars, clicked, submit_booking, name,
                   destination, days, language, weather_forecast,
                   itinerary_with_weather, form_shown, upstream, merged,
                   translation>>

GenerateContent(texts) ==
    /\ pc = "generate"
    /\ calls' = Append(calls, "generate")
    /\ \/ /\ Abort("generate")
          /\ UNCHANGED response_text
       \/ /\ \E t \in texts : response_text' = t
          /\ pc' = "weather"
          /\ UNCHANGED error
    /\ UNCHANGED <<session_vars, tool_vars, clicked, submit_booking, name,
                   destination, days, language, weather_forecast,
                   itinerary_with_weather, form_shown, upstream, merged,
                   translation>>

\* line 127
WeatherCall(envs) ==
    /\ pc = "weather"
    /\ calls' = Append(calls, "weather")
    /\ \E env \in envs :
          LET r == get_weather_forecast(destination, days, env)
          IN  /\ upstream' = env
              /\ IF r.raised
                 THEN Abort("weather") /\ UNCHANGED weather_forecast
                 ELSE /\ weather_forecast' = r.value
                      /\ pc' = "merge"
                      /\ UNCHANGED error
    /\ UNCHANGED <<session_vars, tool_vars, clicked, submit_booking, name,
                   destination, days, language, response_text,
                   itinerary_with_weather, form_shown, merged, translation>>

\* lines 129-140
MergeStep ==
    /\ pc = "merge"
    /\ itinerary_with_weather' = MergeLoop(response_text, weather_forecast)
    /\ pc' = "places"
    /\ UNCHANGED <<session_vars, tool_vars, clicked, submit_booking, name,
                   destination, days, language, response_text, weather_forecast,
                   form_shown, error, calls, upstream, merged, translation>>

\* lines 142-144; the weather service's answer is history from here on
PlacesCall(envs) ==
    /\ pc = "places"
    /\ calls' = Append(calls, "places")
    /\ \E env \in envs :
          itinerary_with_weather' =
              itinerary_with_weather
                  \o PlacesBlock(get_places_recommendations(destination, env))
    /\ upstream' = NoUpstream
    /\ pc' = "translate"
    /\ UNCHANGED <<session_vars, tool_vars, clicked, submit_booking, name,
                   destination, days, language, response_text, weather_forecast,
                   form_shown, error, merged, translation>>

\* lines 146-152
TranslateStep_always ==
    /\ pc = "translate"
    /\ merged' = itinerary_with_weather
    /\ calls' = Append(calls, "translate")
    /\ \/ /\ \E t \in Translations(itinerary_with_weather, language) :
                itinerary_with_weather' = t
          /\ translation' = "ok"
       \/ /\ itinerary_with_weather' = itinerary_with_weather \o TranslationFailed
          /\ translation' = "failed"
    /\ pc' = "save"
    /\ UNCHANGED <<session_vars, tool_vars, clicked, submit_booking, name,
                   destination, days, language, response_text, weather_forecast,
                   form_shown, error, upstream>>

TranslateStep_replace ==
    /\ pc = "translate"
    /\ merged' = itinerary_with_weather
    /\ IF language # "English"
       THEN /\ calls' = Append(calls, "translate")
            /\ \/ /\ \E t \in Translations(itinerary_with_weather, language) :
                        itinerary_with_weather' = t
                  /\ translation' = "ok"
               \/ /\ itinerary_with_weather' = <<"(!)", " ", "Translation failed.">>
                  /\ translation' = "failed"
       ELSE /\ translation' = "skipped"
            /\ UNCHANGED <<calls, itinerary_with_weather>>
    /\ pc' = "save"
    /\ UNCHANGED <<session_vars, tool_vars, clicked, submit_booking, name,
                   destination, days, language, response_text, weather_forecast,
                   form_shown, error, upstream>>

TranslateStep ==
    /\ pc = "translate"
    /\ merged' = itinerary_with_weather
    /\ IF language # "English"
       THEN /\ calls' = Append(calls, "translate")
            /\ \/ /\ \E t \in Translations(itinerary_with_weather, language) :
                        itinerary_with_weather' = t
                  /\ translation' = "ok"
               \/ /\ itinerary_with_weather' =
                        itinerary_with_weather \o TranslationFailed
                  /\ translation' = "failed"
       ELSE /\ translation' = "skipped"
            /\ UNCHANGED <<calls, itinerary_with_weather>>
    /\ pc' = "save"
    /\ UNCHANGED <<session_vars, tool_vars, clicked, submit_booking, name,
                   destination, days, language, response_text, weather_forecast,
                   form_shown, error, upstream>>

\* lines 154-156
Save_keep_flag ==
    /\ pc = "save"
    /\ itinerary' = Some(Strip(itinerary_with_weather))
    /\ pc' = "show"
    /\ UNCHANGED <<booking_done, tool_vars, clicked, submit_booking, name, destination, days,
                   language, response_text, weather_forecast,
                   itinerary_with_weather, form_shown, error, calls, upstream,
                   merged, translation>>

Save ==
    /\ pc = "save"
    /\ itinerary' = Some(Strip(itinerary_with_weather))
    /\ booking_done' = FALSE
    /\ pc' = "show"
    /\ UNCHANGED <<tool_vars, clicked, submit_booking, name, destination, days,
                   language, response_text, weather_forecast,
                   itinerary_with_weather, form_shown, error, calls, upstream,
                   merged, translation>>

\* lines 163-171: nothing is shown without an itinerary; export_pdf writes the
\* file, or raises (the font file is missing, a glyph is not in the font)
ShowItinerary ==
    /\ pc = "show"
    /\ IF Truthy(itinerary)
       THEN \/ /\ pdf_file' = Render(itinerary[1])
               /\ pc' = "booking"
               /\ UNCHANGED error
            \/ /\ Abort("pdf")
               /\ UNCHANGED pdf_file
       ELSE /\ pc' = "idle"
            /\ UNCHANGED <<error, pdf_file>>
    /\ UNCHANGED <<session_vars, tool_result, exporter, clicked, submit_booking,
                   name, destination, days, language, response_text,
                   weather_forecast, itinerary_with_weather, form_shown, calls,
                   upstream, merged, translation>>

\* lines 195-208
BookingSection_any_name ==
    /\ pc = "booking"
    /\ IF ~booking_done
       THEN /\ form_shown' = TRUE
            /\ booking_done' = submit_booking
       ELSE UNCHANGED <<form_shown, booking_done>>
    /\ pc' = "idle"
    /\ UNCHANGED <<itinerary, tool_vars, clicked, submit_booking, name,
                   destination, days, language, response_text, weather_forecast,
                   itinerary_with_weather, error, calls, upstream, merged,
                   translation>>

BookingSection ==
    /\ pc = "booking"
    /\ IF ~booking_done
       THEN /\ form_shown' = TRUE
            /\ IF submit_booking /\ Strip(name) # <<>>
               THEN booking_done' = TRUE
               ELSE UNCHANGED booking_done
       ELSE UNCHANGED <<form_shown, booking_done>>
    /\ pc' = "idle"
    /\ UNCHANGED <<itinerary, tool_vars, clicked, submit_booking, name,
                   destination, days, language, response_text, weather_forecast,
                   itinerary_with_weather, error, calls, upstream, merged,
                   translation>>

\* a session: any sequence of page runs
Next ==
    \/ ClickGenerate(SessionDestinations)
    \/ SubmitBooking
    \/ Rerun
    \/ GenerateContent(SessionTexts)
    \/ WeatherCall(SessionWeatherEnvs)
    \/ MergeStep
    \/ PlacesCall(SessionPlacesEnvs)
    \/ TranslateStep
    \/ Save
    \/ ShowItinerary
    \/ BookingSection

Spec == Init /\ [][Next]_vars

\* the Generate cycle up to the end of its merge loop (lines 120-140), on every
\* itinerary text and every answer of the weather service
MergeNext ==
    \/ ClickGenerate(Destinations)
    \/ GenerateContent(ItineraryTexts)
    \/ WeatherCall(WeatherEnvs)
    \/ MergeStep

MergeSpec == Init /\ [][MergeNext]_vars

-----------------------------------------------------------------------------
\* The MCP tool weather_forecast (src/mcp_server.py lines 24-27): one call on
\* every destination, day count and answer of the weather service.

WeatherToolInit ==
    /\ SessionInit
    /\ pc = "tool_call"
    /\ clicked = FALSE
    /\ submit_booking = FALSE
    /\ name = <<>>
    /\ destination \in Destinations
    /\ days \in DayCounts
    /\ language = "English"
    /\ response_text = <<>>
    /\ weather_forecast = <<>>
    /\ itinerary_with_weather = <<>>
    /\ form_shown = FALSE
    /\ error = "none"
    /\ calls = <<>>
    /\ upstream \in WeatherEnvs
    /\ merged = <<>>
    /\ translation = "none"
    /\ ToolsIdle

tool_weather_forecast ==
    /\ pc = "tool_call"
    /\ tool_result' = get_weather_forecast(destination, days, upstream)
    /\ pc' = "tool_done"
    /\ UNCHANGED <<session_vars, clicked, submit_booking, name, destination,
                   days, language, response_text, weather_forecast,
                   itinerary_with_weather, form_shown, error, calls, upstream,
                   merged, translation, pdf_file, exporter>>

WeatherToolSpec == WeatherToolInit /\ [][tool_weather_forecast]_vars

-----------------------------------------------------------------------------
\* Concurrent PDF exports: two callers, each exporting its own itinerary and
\* then reading the file back (two export_itinerary_pdf calls whose callers
\* fetch the returned file name, or two sessions of the page at lines 169-171).
\* Both write ./itinerary.pdf of the one server process.

Callers == {"a", "b"}

PdfTexts == { <<"D","a","y"," ","1">>, <<"D","a","y"," ","2">>, <<"x">> }

PdfInit ==
    /\ PageInit
    /\ tool_result = [raised |-> FALSE, value |-> <<>>, msg |-> ""]
    /\ pdf_file = NoFile
    /\ exporter \in [Callers -> [pc : {"export"}, text : PdfTexts, got : {NoFile}]]

\* export_pdf(itinerary_text), lines 84-94
export_pdf(c) ==
    /\ exporter[c].pc = "export"
    /\ pdf_file' = Render(exporter[c].text)
    /\ exporter' = [exporter EXCEPT ![c].pc = "read"]
    /\ UNCHANGED <<session_vars, run_vars, tool_result>>

\* open(pdf_file, "rb") and the read of its content, lines 170-171
ReadBack(c) ==
    /\ exporter[c].pc = "read"
    /\ exporter' = [exporter EXCEPT ![c].pc = "done", ![c].got = pdf_file]
    /\ UNCHANGED <<session_vars, run_vars, tool_result, pdf_file>>

\* the caller's next export, of another itinerary
NextExport(c) ==
    /\ exporter[c].pc = "done"
    /\ \E t \in PdfTexts :
          exporter' = [exporter EXCEPT ![c] = [pc |-> "export", text |-> t, got |-> NoFile]]
    /\ UNCHANGED <<session_vars, run_vars, tool_result, pdf_file>>

PdfNext == \E c \in Callers : export_pdf(c) \/ ReadBack(c) \/ NextExport(c)

PdfSpec == PdfInit /\ [][PdfNext]_vars

-----------------------------------------------------------------------------
\* Properties.

Min(a, b) == IF a < b THEN a ELSE b

\* the script is past the Generate block of a run whose button was clicked
CycleOver ==
    clicked /\ pc \notin {"generate", "weather", "merge", "places", "translate", "save"}

\* the session state was saved by this run's Generate block and nothing ran since
JustSaved == clicked /\ pc = "show"

CountOf(what) == Cardinality({i \in 1..Len(calls) : calls[i] = what})

\* the lines of the generated itinerary and of the merge loop's output (which ends
\* every line, the last too, with a newline)
InLines == Split(response_text)
OutLines ==
    LET out == Split(itinerary_with_weather) IN SubSeq(out, 1, Len(out) - 1)

DayLinesOf(lines) == {i \in 1..Len(lines) : IsDayLine(lines[i])}
RankIn(daylines, i) == Cardinality({j \in daylines : j <= i})
\* the boundary lines that have a weather entry of their rank
AnnotatedOf(daylines) == {j \in daylines : RankIn(daylines, j) <= Len(weather_forecast)}
\* where input line i stands in the output: after two more lines for every
\* annotated boundary line above it
OutPos(annotated, i) == i + 2 * Cardinality({j \in annotated : j < i})

\* C1: after the merge loop, the output holds the input lines in their order,
\* each once, and after the k-th boundary line (and nowhere else) the weather line
\* and the suggestion line of the k-th weather entry, for at most
\* min(days, number of weather entries, number of boundary lines) boundary lines.
MergeInsertsPositionalBlocks ==
    pc = "places" =>
        LET inl == InLines
            outl == OutLines
            daylines == DayLinesOf(inl)
            annotated == AnnotatedOf(daylines)
        IN  /\ Len(outl) = Len(inl) + 2 * Cardinality(annotated)
            /\ Cardinality(annotated)
                  <= Min(days, Min(Len(weather_forecast), Cardinality(daylines)))
            /\ \A i \in 1..Len(inl) : outl[OutPos(annotated, i)] = inl[i]
            /\ \A j \in annotated :
                  LET w == weather_forecast[RankIn(daylines, j)]
                  IN  /\ outl[OutPos(annotated, j) + 1] = WeatherLine(w)
                      /\ outl[OutPos(annotated, j) + 2] = SuggestionLine(w)

\* two boundary lines, each followed by the block of its own weather entry
MergeWitness ==
    /\ pc = "places"
    /\ Cardinality(AnnotatedOf(DayLinesOf(InLines))) = 2
    /\ weather_forecast[1] # weather_forecast[2]

\* C2: when the weather service answers 200 with an empty forecast list, the merge
\* loop inserts nothing: its output holds exactly the lines of the itinerary.
EmptyForecastInsertsNothing ==
    (/\ pc = "places"
     /\ upstream.api_key
     /\ upstream.response.kind = "http"
     /\ upstream.response.status = 200
     /\ upstream.response.has_list
     /\ upstream.response.list = <<>>)
        => OutLines = InLines

\* C3: weather_forecast returns normally, at most `days` entries, whatever the
\* credential and the weather service do.
ForecastNeverRaises ==
    pc = "tool_done" =>
        /\ ~tool_result.raised
        /\ Len(tool_result.value) <= days

\* the call returned although the transport raised
ForecastNeverRaisesWitness ==
    /\ pc = "tool_done"
    /\ upstream.api_key
    /\ upstream.response.kind = "exception"
    /\ Len(tool_result.value) = 1

IsWarning(v) == Len(v) = 1 /\ v[1][1] = "(!)"

\* C9: the result is all of the forecast or one warning: either `days` entries,
\* the i-th labelled "Day i" and made of upstream entry 8*(i-1), or one warning
\* entry; a list too short for the last day gives the warning.
ForecastAllOrNothing ==
    pc = "tool_done" =>
        LET v == tool_result.value
            list == upstream.response.list
        IN  /\ \/ /\ Len(v) = days
                  /\ \A i \in 1..days :
                        /\ Stride * (i - 1) + 1 <= Len(list)
                        /\ SubSeq(v[i], 1, 5) = <<"D","a","y"," ", ToString(i)>>
                        /\ v[i] = ForecastLine(i - 1, list[Stride * (i - 1) + 1])
               \/ IsWarning(v)
            /\ Len(list) < Stride * (days - 1) + 1 => IsWarning(v)

\* the first day's entry was there and the second day's was not
ForecastAllOrNothingWitness ==
    /\ pc = "tool_done"
    /\ days = 2
    /\ upstream.response.status = 200
    /\ upstream.response.has_list
    /\ Len(upstream.response.list) = Stride
    /\ \A i \in 1..Stride : upstream.response.list[i].ok
    /\ IsWarning(tool_result.value)

\* a valid submission: the form was submitted with a name that is not blank
ValidSubmission == submit_booking /\ Strip(name) # <<>>

\* C4: the booking flag starts false; it becomes true only where the booking
\* section handles a submission with a non-blank name; a blank-name submission
\* leaves it false; it becomes false again only where a Generate cycle saves.
BookingFlagLifecycle ==
    /\ booking_done = FALSE
    /\ [][ /\ (~booking_done /\ booking_done')
                => (pc = "booking" /\ ValidSubmission)
           /\ (~booking_done /\ submit_booking' /\ Strip(name') = <<>>)
                => ~booking_done'
           /\ (booking_done /\ ~booking_done')
                => (clicked /\ pc = "save" /\ pc' = "show" /\ itinerary' # None)
         ]_vars

\* a run handled a valid submission and set the flag
BookingFlagWitness ==
    /\ pc = "idle"
    /\ ValidSubmission
    /\ booking_done

\* C5 as stated: after a cycle whose translation failed, the stored itinerary is
\* the enriched text with the warning appended, and the flag is false.
TranslationFailureKeepsText ==
    (JustSaved /\ translation = "failed") =>
        /\ itinerary = Some(merged \o TranslationFailed)
        /\ ~booking_done

\* C5, amended: ... is the enriched text with the warning appended, stripped of
\* the white space at its ends; the cycle did not abort and the flag is false.
TranslationFailureKeepsStrippedText ==
    (JustSaved /\ translation = "failed") =>
        /\ itinerary = Some(Strip(merged \o TranslationFailed))
        /\ error = "none"
        /\ ~booking_done

TranslationFailureWitness ==
    /\ JustSaved
    /\ translation = "failed"
    /\ language = "French"
    /\ itinerary # Some(merged \o TranslationFailed)

GenerationFailureAborts ==
    /\ [](error = "generate" => (pc = "idle" /\ calls = <<"generate">>))
    /\ [][ ((pc = "idle" /\ pc' = "generate") \/ error' = "generate")
              => (itinerary' = itinerary /\ booking_done' = booking_done) ]_vars

\* the generation of a booked session failed
GenerationFailureWitness ==
    /\ error = "generate"
    /\ Truthy(itinerary)
    /\ booking_done

\* C8: a caller that has read the file back after its own export holds the
\* rendering of its own itinerary.
ExportsAreIndependent ==
    \A c \in Callers :
        exporter[c].pc = "done" => exporter[c].got = Render(exporter[c].text)

\* C10: the booking flag is true only while a non-empty itinerary is stored.
BookedImpliesItinerary == booking_done => Truthy(itinerary)

\* a booked session, in the middle of a later cycle
BookedWitness ==
    /\ booking_done
    /\ pc = "save"

=============================================================================
